---- MODULE Spec2Model ----
(***************************************************************************)
(* The staged pipeline of src/pkg/pipeline/pipeline.go:                    *)
(*                                                                         *)
(*   generate -> K x power -> merge (K send workers + closer) -> [sum]     *)
(*                                                                         *)
(* All channels are made with make(chan int): unbuffered, so a send and   *)
(* its receive are one joint step of the two goroutines (a rendezvous).    *)
(* Every goroutine has a program counter.  A return (or the end of a       *)
(* range loop) and the deferred call it runs are one step: between the two *)
(* the goroutine reads nothing, and what it waited for (a closed channel,  *)
(* a cancelled context, a zero counter) cannot be undone by anyone.        *)
(* Go's int is 64 bits wide; the bounds below keep every value far from    *)
(* the wrap-around, so plain integer arithmetic is exact.                  *)
(***************************************************************************)
EXTENDS Integers, Sequences, FiniteSets, TLC

\* Bounds of the model.
MaxLen == 2        \* longest input sequence handed to generate
MaxK == 2          \* most power workers sharing generate's channel

VARIABLES
    numbers,    \* generate's variadic argument (main: 15, 2, 9, 23, 91)
    K,          \* number of power workers / merge input channels (main: 2)
    useSink,    \* TRUE when sum is wired behind merge
    m,          \* how many receives the owner's loop performs (main: 3)
    cancelled,  \* the context: FALSE = active, TRUE = Done() is closed
    closes,     \* per channel: how many times close() ran on it
    panic,      \* "none", or the runtime panic that ended the process
    genPc,      \* generate's goroutine
    genI,       \* index of the number generate is sending
    pwPc,       \* power goroutines: pwPc[k]
    pwVal,      \* the n a power goroutine holds between receive and send (0: none)
    fwPc,       \* merge's send goroutines: fwPc[k]
    fwVal,      \* the n a send goroutine holds between receive and send (0: none)
    wg,         \* the sync.WaitGroup counter of merge
    clPc,       \* merge's closing goroutine
    smPc,       \* sum's goroutine
    total,      \* sum's accumulator
    ownerPc,    \* main
    got,        \* what main's receives returned, in order
    inLog,      \* history: values handed over on generate's channel
    pwIn,       \* history: values each power goroutine received
    pwOut,      \* history: values each power goroutine handed over
    mergedLog   \* history: values handed over on merge's out channel

cfg   == <<numbers, K, useSink, m>>
ctxv  == <<cancelled>>
genv  == <<genPc, genI>>
pwv   == <<pwPc, pwVal>>
fwv   == <<fwPc, fwVal>>
mgv   == <<wg, clPc>>
smv   == <<smPc, total>>
mainv == <<ownerPc, got>>
logv  == <<inLog, pwIn, pwOut, mergedLog>>
vars  == <<cfg, ctxv, closes, panic, genv, pwv, fwv, mgv, smv, mainv, logv>>

-----------------------------------------------------------------------------
\* Inputs and channels

\* The integers the inputs are made of (repetitions allowed).
Values == {1, 2}

SeqsUpTo(S, n) == UNION {[1..l -> S] : l \in 0..n}

Inputs == SeqsUpTo(Values, MaxLen)

\* One input of each length, all elements distinct: <<>>, <<1>>, <<1, 2>>, ...
\* No stage branches on a value, so which goroutine can take which step
\* depends on the length of the input alone.
Ramps == {[i \in 1..l |-> i] : l \in 0..MaxLen}

\* The channels: generate's out, each power's out, merge's out, sum's out.
chIn      == <<"in", 0>>
chPow(k)  == <<"pow", k>>
chMerged  == <<"merged", 0>>
chResult  == <<"result", 0>>

Chans(k) == {chIn, chMerged, chResult} \cup {chPow(j) : j \in 1..k}

closed(c) == closes[c] > 0

\* The channel main reads: merge's out, or sum's out when sum is wired in.
outer == IF useSink THEN chResult ELSE chMerged

\* A runtime panic ends the process: nothing else changes, nothing runs after.
Panic(msg) ==
    /\ panic' = msg
    /\ UNCHANGED <<cfg, ctxv, closes, genv, pwv, fwv, mgv, smv, mainv, logv>>

\* A goroutine that returns without its close, i.e. without its defer.
closeNot(c) == UNCHANGED <<closes, panic>>

\* close(c): a second close of the same channel panics.
close(c) ==
    /\ closes' = [closes EXCEPT ![c] = @ + 1]
    /\ panic' = IF closes[c] > 0 THEN "close of closed channel" ELSE panic

-----------------------------------------------------------------------------
\* Pure pieces of the stages

\* A payload function that doubles instead of squaring.
SquareDouble(n) == n + n

\* power's payload function.
Square(n) == n * n

\* A sum that keeps only the last value (total = n for total += n).
accumulateLast(t, n) == n

\* sum's accumulation.
accumulate(t, n) == t + n

\* A loop that steps over every other element.
rangeSkip(i) == i + 2

\* A loop that sends the same element again.
rangeStay(i) == i

\* generate's range loop: the index after the one just sent.
rangeNext(i) == i + 1

\* A Wait that returns as soon as at most one worker is left.
wgWaitEarly(w) == w <= 1

\* wg.Wait() returns when the counter is zero.
wgWait(w) == w = 0

\* A Done that takes two off the counter.
wgDoneTwice(w) == w - 2

\* wg.Done()
wgDone(w) == w - 1

\* A cancel function that does nothing.
cancelNoop(c) == c

\* A cancel function that toggles the context.
cancelToggle(c) == ~c

\* cancel(): the context becomes (or stays) cancelled.
cancel(c) == TRUE

\* A select whose second case is always ready (a default: branch).
DoneAlways(c) == TRUE

\* A select that never sees the cancellation.
DoneNever(c) == FALSE

\* <-ctx.Done() can proceed exactly when the context is cancelled.
Done(c) == c

\* A fan-out that hands every value to all the waiting workers.
rangeRecvAll(k) == {j \in 1..K : pwPc[j] = "recv"}

\* A value sent on generate's channel goes to the one power goroutine whose
\* receive the send meets.
rangeRecv(k) == {k}

-----------------------------------------------------------------------------
\* The state after main has wired the stages and before any goroutine ran.

InitStages ==
    /\ cancelled = FALSE
    /\ closes = [c \in Chans(K) |-> 0]
    /\ panic = "none"
    /\ pwPc = [k \in 1..K |-> "recv"]
    /\ pwVal = [k \in 1..K |-> 0]
    /\ fwPc = [k \in 1..K |-> "recv"]
    /\ fwVal = [k \in 1..K |-> 0]
    /\ wg = K
    /\ clPc = "wait"
    /\ smPc = IF useSink THEN "recv" ELSE "absent"
    /\ total = 0
    /\ ownerPc = "loop"
    /\ got = <<>>
    /\ inLog = <<>>
    /\ pwIn = [k \in 1..K |-> <<>>]
    /\ pwOut = [k \in 1..K |-> <<>>]
    /\ mergedLog = <<>>

InitWith(inputs, sinks) ==
    /\ numbers \in inputs
    /\ K \in 1..MaxK
    /\ useSink \in sinks
    /\ m \in 0..((IF useSink THEN 1 ELSE Len(numbers)) + 1)
    /\ genPc = IF numbers = <<>> THEN "close" ELSE "select"
    /\ genI = 1
    /\ InitStages

\* Every input, with and without sum.
Init == InitWith(Inputs, BOOLEAN)

\* Every input, with sum.
InitSink == InitWith(Inputs, {TRUE})

\* One input of each length, without sum: generate, power and merge alone.
InitMerge == InitWith(Ramps, {FALSE})

-----------------------------------------------------------------------------
\* generate

\* case out <- n, taken together with power k's receive of it.
generateSend(k) ==
    /\ panic = "none"
    /\ genPc = "select"
    /\ k \in 1..K
    /\ IF closed(chIn)
       THEN Panic("send on closed channel")
       ELSE /\ pwPc[k] = "recv"
            /\ genI' = rangeNext(genI)
            /\ genPc' = IF rangeNext(genI) > Len(numbers) THEN "close" ELSE "select"
            /\ pwPc' = [j \in 1..K |-> IF j \in rangeRecv(k) THEN "select" ELSE pwPc[j]]
            /\ pwVal' = [j \in 1..K |->
                            IF j \in rangeRecv(k) THEN numbers[genI] ELSE pwVal[j]]
            /\ pwIn' = [j \in 1..K |->
                           IF j \in rangeRecv(k) THEN Append(pwIn[j], numbers[genI])
                           ELSE pwIn[j]]
            /\ inLog' = Append(inLog, numbers[genI])
            /\ UNCHANGED <<cfg, ctxv, closes, panic, fwv, mgv, smv, mainv,
                           pwOut, mergedLog>>

\* case <-ctx.Done(): return, and the deferred close(out)
generateDone ==
    /\ panic = "none"
    /\ genPc = "select"
    /\ Done(cancelled)
    /\ close(chIn)
    /\ genPc' = "done"
    /\ UNCHANGED <<cfg, ctxv, genI, pwv, fwv, mgv, smv, mainv, logv>>

\* The range over numbers is exhausted: the deferred close(out)
generateClose ==
    /\ panic = "none"
    /\ genPc = "close"
    /\ close(chIn)
    /\ genPc' = "done"
    /\ UNCHANGED <<cfg, ctxv, genI, pwv, fwv, mgv, smv, mainv, logv>>

-----------------------------------------------------------------------------
\* power

\* for n := range in, when in is closed: the loop ends, and the deferred
\* close(out)
powerRangeEnd(k) ==
    /\ panic = "none"
    /\ k \in 1..K
    /\ pwPc[k] = "recv"
    /\ closed(chIn)
    /\ close(chPow(k))
    /\ pwPc' = [pwPc EXCEPT ![k] = "done"]
    /\ UNCHANGED <<cfg, ctxv, genv, pwVal, fwv, mgv, smv, mainv, logv>>

\* case out <- n * n, taken together with send worker k's receive of it.
powerSend(k) ==
    /\ panic = "none"
    /\ k \in 1..K
    /\ pwPc[k] = "select"
    /\ IF closed(chPow(k))
       THEN Panic("send on closed channel")
       ELSE /\ fwPc[k] = "recv"
            /\ pwPc' = [pwPc EXCEPT ![k] = "recv"]
            /\ fwPc' = [fwPc EXCEPT ![k] = "select"]
            /\ fwVal' = [fwVal EXCEPT ![k] = Square(pwVal[k])]
            /\ pwOut' = [pwOut EXCEPT ![k] = Append(@, Square(pwVal[k]))]
            /\ pwVal' = [pwVal EXCEPT ![k] = 0]
            /\ UNCHANGED <<cfg, ctxv, closes, panic, genv, mgv, smv, mainv,
                           inLog, pwIn, mergedLog>>

\* case <-ctx.Done(): return, and the deferred close(out)
powerDone(k) ==
    /\ panic = "none"
    /\ k \in 1..K
    /\ pwPc[k] = "select"
    /\ Done(cancelled)
    /\ close(chPow(k))
    /\ pwPc' = [pwPc EXCEPT ![k] = "done"]
    /\ pwVal' = [pwVal EXCEPT ![k] = 0]
    /\ UNCHANGED <<cfg, ctxv, genv, fwv, mgv, smv, mainv, logv>>

-----------------------------------------------------------------------------
\* merge: the send closure, one goroutine per input channel

\* Every send goroutine closing the shared out channel when it is done.
sendDeferClose ==
    /\ wg' = wgDone(wg)
    /\ close(chMerged)

\* The closure's deferred call: wg.Done(), and nothing else.
sendDefer ==
    /\ wg' = wgDone(wg)
    /\ UNCHANGED <<closes, panic>>

\* for n := range ch, when ch is closed: the loop ends, and the deferred
\* wg.Done()
sendRangeEnd(k) ==
    /\ panic = "none"
    /\ k \in 1..K
    /\ fwPc[k] = "recv"
    /\ closed(chPow(k))
    /\ sendDefer
    /\ fwPc' = [fwPc EXCEPT ![k] = "done"]
    /\ UNCHANGED <<cfg, ctxv, genv, pwv, fwVal, clPc, smv, mainv, logv>>

\* case out <- n, taken together with the receive of sum (when wired in) or
\* of main's loop.
sendSend(k) ==
    /\ panic = "none"
    /\ k \in 1..K
    /\ fwPc[k] = "select"
    /\ IF closed(chMerged)
       THEN Panic("send on closed channel")
       ELSE /\ fwPc' = [fwPc EXCEPT ![k] = "recv"]
            /\ mergedLog' = Append(mergedLog, fwVal[k])
            /\ IF useSink
               THEN /\ smPc = "recv"
                    /\ total' = accumulate(total, fwVal[k])
                    /\ UNCHANGED <<smPc, mainv>>
               ELSE /\ ownerPc = "loop"
                    /\ Len(got) < m
                    /\ got' = Append(got, [val |-> fwVal[k], ok |-> TRUE])
                    /\ UNCHANGED <<ownerPc, smv>>
            /\ fwVal' = [fwVal EXCEPT ![k] = 0]
            /\ UNCHANGED <<cfg, ctxv, closes, panic, genv, pwv, mgv,
                           inLog, pwIn, pwOut>>

\* case <-ctx.Done(): return, and the deferred wg.Done()
sendDone(k) ==
    /\ panic = "none"
    /\ k \in 1..K
    /\ fwPc[k] = "select"
    /\ Done(cancelled)
    /\ sendDefer
    /\ fwPc' = [fwPc EXCEPT ![k] = "done"]
    /\ fwVal' = [fwVal EXCEPT ![k] = 0]
    /\ UNCHANGED <<cfg, ctxv, genv, pwv, clPc, smv, mainv, logv>>

\* merge: the closing goroutine: wg.Wait() returns, then close(out)
mergeClose ==
    /\ panic = "none"
    /\ clPc = "wait"
    /\ wgWait(wg)
    /\ close(chMerged)
    /\ clPc' = "done"
    /\ UNCHANGED <<cfg, ctxv, genv, pwv, fwv, wg, smv, mainv, logv>>

-----------------------------------------------------------------------------
\* sum

\* for n := range in, when in is closed: the loop ends.
sumRangeEnd ==
    /\ panic = "none"
    /\ smPc = "recv"
    /\ closed(chMerged)
    /\ smPc' = "send"
    /\ UNCHANGED <<cfg, ctxv, closes, panic, genv, pwv, fwv, mgv, total, mainv, logv>>

\* out <- total, taken together with main's receive of it.
sumSend ==
    /\ panic = "none"
    /\ smPc = "send"
    /\ IF closed(chResult)
       THEN Panic("send on closed channel")
       ELSE /\ ownerPc = "loop"
            /\ Len(got) < m
            /\ got' = Append(got, [val |-> total, ok |-> TRUE])
            /\ smPc' = "close"
            /\ UNCHANGED <<cfg, ctxv, closes, panic, genv, pwv, fwv, mgv, total,
                           ownerPc, logv>>

\* close(out)
sumClose ==
    /\ panic = "none"
    /\ smPc = "close"
    /\ close(chResult)
    /\ smPc' = "done"
    /\ UNCHANGED <<cfg, ctxv, genv, pwv, fwv, mgv, total, mainv, logv>>

-----------------------------------------------------------------------------
\* main, the pipeline owner

\* <-out on a closed channel: returns the zero value at once.
mainRecvClosed ==
    /\ panic = "none"
    /\ ownerPc = "loop"
    /\ Len(got) < m
    /\ closed(outer)
    /\ got' = Append(got, [val |-> 0, ok |-> FALSE])
    /\ UNCHANGED <<cfg, ctxv, closes, panic, genv, pwv, fwv, mgv, smv, ownerPc, logv>>

\* The loop is over: main returns and the deferred cancel() runs.
mainExit ==
    /\ panic = "none"
    /\ ownerPc = "loop"
    /\ Len(got) = m
    /\ cancelled' = cancel(cancelled)
    /\ ownerPc' = "exited"
    /\ UNCHANGED <<cfg, closes, panic, genv, pwv, fwv, mgv, smv, got, logv>>

\* An explicit call of the cancel function returned by context.WithCancel,
\* at any moment and any number of times.
trigger ==
    /\ panic = "none"
    /\ cancelled' = cancel(cancelled)
    /\ UNCHANGED <<cfg, closes, panic, genv, pwv, fwv, mgv, smv, mainv, logv>>

-----------------------------------------------------------------------------
\* power and merge over a channel that the caller supplies: power(ctx, in)
\* takes any <-chan int.  The caller may send on it, close it, or do neither.
\* The values it sends are 1, 2, ... (no stage branches on a value).

envSend(k, v) ==
    /\ panic = "none"
    /\ genPc = "extern"
    /\ k \in 1..K
    /\ ~closed(chIn)
    /\ Len(inLog) < MaxLen
    /\ pwPc[k] = "recv"
    /\ pwPc' = [pwPc EXCEPT ![k] = "select"]
    /\ pwVal' = [pwVal EXCEPT ![k] = v]
    /\ pwIn' = [pwIn EXCEPT ![k] = Append(@, v)]
    /\ inLog' = Append(inLog, v)
    /\ UNCHANGED <<cfg, ctxv, closes, panic, genv, fwv, mgv, smv, mainv, pwOut, mergedLog>>

envClose ==
    /\ panic = "none"
    /\ genPc = "extern"
    /\ ~closed(chIn)
    /\ close(chIn)
    /\ UNCHANGED <<cfg, ctxv, genv, pwv, fwv, mgv, smv, mainv, logv>>

InitExt ==
    /\ numbers = <<>>
    /\ K \in 1..MaxK
    /\ useSink = FALSE
    /\ m \in 0..(MaxLen + 1)
    /\ genPc = "extern"
    /\ genI = 1
    /\ InitStages

-----------------------------------------------------------------------------
\* Steps of each goroutine, and the specifications

generateStep == (\E k \in 1..MaxK : generateSend(k)) \/ generateDone \/ generateClose

powerStep(k) == generateSend(k) \/ powerRangeEnd(k) \/ powerSend(k) \/ powerDone(k)

sendStep(k) == powerSend(k) \/ sendRangeEnd(k) \/ sendSend(k) \/ sendDone(k)

closerStep == mergeClose

sumStep == (\E k \in 1..MaxK : sendSend(k)) \/ sumRangeEnd \/ sumSend \/ sumClose

mainStep == (\E k \in 1..MaxK : sendSend(k)) \/ sumSend \/ mainRecvClosed \/ mainExit

\* The goroutines started by power and merge, and main.
NextStages ==
    \/ \E k \in 1..MaxK : powerRangeEnd(k)
    \/ \E k \in 1..MaxK : powerSend(k)
    \/ \E k \in 1..MaxK : powerDone(k)
    \/ \E k \in 1..MaxK : sendRangeEnd(k)
    \/ \E k \in 1..MaxK : sendSend(k)
    \/ \E k \in 1..MaxK : sendDone(k)
    \/ mergeClose
    \/ mainRecvClosed
    \/ mainExit

\* generate, power, merge and main, as main runs them: cancel() is called by
\* the defer only.
NextPipe ==
    \/ \E k \in 1..MaxK : generateSend(k)
    \/ generateDone
    \/ generateClose
    \/ NextStages

\* The same, with explicit calls of cancel() at any moment.
NextCancel == NextPipe \/ trigger

\* The pipeline with sum behind merge, cancel() called by the defer only.
NextMain ==
    \/ NextPipe
    \/ sumRangeEnd
    \/ sumSend
    \/ sumClose

\* Everything: sum wired in or not, cancel() called at any moment.
Next == NextMain \/ trigger

\* power and merge over a caller-supplied channel.
NextExt ==
    \/ \E k \in 1..MaxK : envSend(k, Len(inLog) + 1)
    \/ envClose
    \/ NextStages
    \/ trigger

Spec == Init /\ [][Next]_vars

\* Every goroutine that can take a step eventually takes one.  The explicit
\* trigger is the caller's choice and is not forced; nor is anything the
\* caller does with a channel it supplies.
Fairness ==
    /\ WF_vars(generateStep)
    /\ \A k \in 1..MaxK : WF_vars(powerStep(k))
    /\ \A k \in 1..MaxK : WF_vars(sendStep(k))
    /\ WF_vars(closerStep)
    /\ WF_vars(sumStep)
    /\ WF_vars(mainStep)

\* generate -> K x power -> merge over every input, cancelled at any moment.
PipeSpec == InitWith(Inputs, {FALSE}) /\ [][NextCancel]_vars

\* generate -> K x power -> merge, cancelled at any moment.
FairSpec == InitMerge /\ [][NextCancel]_vars /\ Fairness

\* generate -> K x power -> merge, cancelled by main's defer.
MainSpec == InitMerge /\ [][NextPipe]_vars /\ Fairness

\* generate -> K x power -> merge -> sum, cancelled by main's defer.
SinkSpec == InitSink /\ [][NextMain]_vars /\ Fairness

ExtSpec == InitExt /\ [][NextExt]_vars /\ Fairness

-----------------------------------------------------------------------------
\* Vocabulary of the properties

Range(s) == {s[i] : i \in DOMAIN s}

RECURSIVE SumSeq(_)
SumSeq(s) == IF s = <<>> THEN 0 ELSE s[1] + SumSeq(Tail(s))

\* n*n for every n of s, computed apart from the model of power.
MapSquare(s) == [i \in DOMAIN s |-> s[i] * s[i]]

Count(s, v) == Cardinality({i \in DOMAIN s : s[i] = v})

\* s and t hold the same values the same number of times.
SameBag(s, t) ==
    /\ Len(s) = Len(t)
    /\ \A v \in Range(s) \cup Range(t) : Count(s, v) = Count(t, v)

\* every value occurs in t at least as often as in s.
SubBag(s, t) == \A v \in Range(s) : Count(s, v) <= Count(t, v)

IsPrefix(s, t) == Len(s) <= Len(t) /\ SubSeq(t, 1, Len(s)) = s

\* f[1] \o ... \o f[k]
RECURSIVE CatTo(_, _)
CatTo(f, k) == IF k = 0 THEN <<>> ELSE CatTo(f, k - 1) \o f[k]

\* The values main received (closed-channel zeros left out).
GotVals == [i \in 1..Len(SelectSeq(got, LAMBDA g : g.ok)) |->
               SelectSeq(got, LAMBDA g : g.ok)[i].val]

\* The values the send goroutines of merge hold, received and not yet sent.
HeldBySend == SelectSeq(CatTo([k \in 1..K |-> <<fwVal[k]>>], K), LAMBDA v : v # 0)

StagesExited == \A k \in 1..K : pwPc[k] = "done" /\ fwPc[k] = "done"

AllExited == genPc = "done" /\ clPc = "done" /\ StagesExited

-----------------------------------------------------------------------------
\* C1 (completeness).  In a run of the whole pipeline with sum wired in, as
\* long as nothing has been cancelled the first value main receives is the
\* sum of n*n over the input and every later receive finds the result channel
\* closed; and when main's loop reads at least once, that result does arrive
\* (cancel() is only the deferred call here, which runs after the loop).
SumOfSquares == SumSeq(MapSquare(numbers))

C1_Result ==
    (useSink /\ ~cancelled /\ Len(got) >= 1) =>
        /\ got[1] = [val |-> SumOfSquares, ok |-> TRUE]
        /\ \A j \in 2..Len(got) : got[j] = [val |-> 0, ok |-> FALSE]

C1_Completeness ==
    /\ []C1_Result
    /\ (useSink /\ m >= 1) => <>(Len(got) >= 1 /\ got[1].val = SumOfSquares)

\* Two workers shared the work of a two-element input and main holds the sum.
C1_Witness ==
    /\ useSink /\ K = 2 /\ Len(numbers) = 2 /\ numbers[1] # numbers[2]
    /\ pwIn[1] # <<>> /\ pwIn[2] # <<>>
    /\ ~cancelled /\ Len(got) = 2 /\ got[1].val = 5

\* C2 (no duplication in fan-out).  At every moment the values received by
\* the power workers, taken together, are exactly the values generate has
\* sent, each once; and once generate has finished without cancellation
\* these are all the input values.
C2_NoDuplication ==
    /\ SameBag(CatTo(pwIn, K), inLog)
    /\ genI = Len(inLog) + 1
    /\ (genPc = "done" /\ ~cancelled) => SameBag(inLog, numbers)

\* generate is done and each of two workers received one of the two values.
C2_Witness ==
    /\ K = 2 /\ Len(numbers) = 2 /\ genPc = "done" /\ ~cancelled
    /\ Len(pwIn[1]) = 1 /\ Len(pwIn[2]) = 1

\* C3 (merge forwards exactly once).  Absent cancellation, the values sent
\* on merge's input channels are exactly the values received from its output
\* together with those a send goroutine holds at that moment; so when the
\* output is closed, what was received from it is the multiset union of the
\* inputs.
C3_MergeExactlyOnce ==
    ~cancelled =>
        /\ SameBag(CatTo(pwOut, K), mergedLog \o HeldBySend)
        /\ closed(chMerged) => SameBag(CatTo(pwOut, K), mergedLog)

\* merge's output closed after forwarding one value from each of two inputs.
C3_Witness ==
    /\ K = 2 /\ ~cancelled /\ closed(chMerged)
    /\ Len(pwOut[1]) = 1 /\ Len(pwOut[2]) = 1 /\ Len(mergedLog) = 2

\* C4 (fan-in closure).  Absent cancellation, merge's output is closed only
\* when every input channel is closed and every send goroutine has exited
\* (none holds a value); and once all inputs are closed and no send
\* goroutine holds a value, the output does get closed.
InputsDrained ==
    \A k \in 1..K : closed(chPow(k)) /\ fwPc[k] # "select"

C4_ClosedOnlyAfterInputs ==
    (~cancelled /\ closed(chMerged)) =>
        \A k \in 1..K : closed(chPow(k)) /\ fwPc[k] = "done" /\ fwVal[k] = 0

C4_FanInClosure ==
    /\ []C4_ClosedOnlyAfterInputs
    /\ (~cancelled /\ InputsDrained) ~> closed(chMerged)

\* Two inputs that each carried a value are closed, and so is the output.
C4_Witness ==
    /\ K = 2 /\ ~cancelled /\ closed(chMerged)
    /\ Len(pwOut[1]) = 1 /\ Len(pwOut[2]) = 1
    /\ closed(chPow(1)) /\ closed(chPow(2))

\* C5 (cancellation bounds leakage).  Once the context is cancelled, the
\* generate goroutine, every power goroutine, every send goroutine of merge
\* and merge's closing goroutine all exit, whatever main does.
C5_CancelStopsAll == cancelled ~> AllExited

\* Everything has exited after a cancellation that cut the input short while
\* main had stopped reading.
C5_Witness ==
    /\ cancelled /\ AllExited /\ K = 2
    /\ Len(inLog) < Len(numbers) /\ Len(mergedLog) < Len(inLog)

C6_SelectSeesCancel ==
    \A k \in 1..K :
        /\ (cancelled /\ pwPc[k] = "select") => ENABLED powerDone(k)
        /\ (cancelled /\ fwPc[k] = "select") => ENABLED sendDone(k)

C6_RecvEndsOnCloseOnly ==
    \A k \in 1..K :
        /\ (pwPc[k] = "recv" /\ pwPc'[k] = "done") => closed(chIn)
        /\ (fwPc[k] = "recv" /\ fwPc'[k] = "done") => closed(chPow(k))

C7_Partial == ~useSink /\ m <= Len(numbers)

C7_Received ==
    C7_Partial =>
        /\ Len(got) <= m
        /\ \A j \in 1..Len(got) : got[j].ok
        /\ SubBag(GotVals, MapSquare(numbers))

C7_PartialConsumption ==
    /\ []C7_Received
    /\ C7_Partial => <>(ownerPc = "exited" /\ Len(got) = m /\ AllExited)

\* main read one of two values, cancelled, and everything exited.
C7_Witness ==
    /\ ~useSink /\ K = 2 /\ Len(numbers) = 2 /\ m = 1
    /\ ownerPc = "exited" /\ Len(got) = 1 /\ got[1].ok /\ AllExited

\* C8 (single closer, no send on a closed channel).  No run panics; no
\* channel is closed twice; no goroutine waits in a send on a channel that
\* is closed; and merge's output is closed only when every send goroutine
\* has exited.
C8_SingleCloser ==
    /\ panic = "none"
    /\ \A c \in Chans(K) : closes[c] <= 1
    /\ genPc = "select" => ~closed(chIn)
    /\ \A k \in 1..K : pwPc[k] = "select" => ~closed(chPow(k))
    /\ \A k \in 1..K : fwPc[k] = "select" => ~closed(chMerged)
    /\ smPc = "send" => ~closed(chResult)
    /\ closed(chMerged) => \A k \in 1..K : fwPc[k] = "done"

\* After a cancellation every channel of a two-worker pipeline is closed.
C8_Witness ==
    /\ K = 2 /\ useSink /\ cancelled
    /\ \A c \in Chans(K) : closes[c] = 1

C10_SourceOrder ==
    ~cancelled =>
        /\ IsPrefix(inLog, numbers)
        /\ closed(chIn) => inLog = numbers

\* A single consumer received a two-element input in order, then the close.
C10_Witness ==
    /\ K = 1 /\ ~cancelled /\ closed(chIn)
    /\ Len(numbers) = 2 /\ numbers[1] # numbers[2] /\ inLog = numbers

-----------------------------------------------------------------------------
\* C11 (sink result).  With sum wired in, cancelled or not: while sum is
\* still receiving or waiting to send, nothing has been sent on the result
\* channel and it is open; sum leaves its receive loop only after its inbound
\* channel was closed; the one value it sends is the sum of all the values it
\* received (0 when it received none); and the result channel is closed
\* exactly when sum has finished, that is after that single send, and once.
C11_SinkResult ==
    useSink =>
        /\ total = SumSeq(mergedLog)
        /\ smPc \in {"recv", "send"} => GotVals = <<>> /\ ~closed(chResult)
        /\ smPc \in {"send", "close", "done"} => closed(chMerged)
        /\ smPc \in {"close", "done"} => GotVals = <<SumSeq(mergedLog)>>
        /\ closed(chResult) <=> smPc = "done"
        /\ closes[chResult] <= 1

\* sum received two values, sent their sum and closed the result channel.
C11_Witness ==
    /\ useSink /\ smPc = "done" /\ Len(mergedLog) = 2
    /\ GotVals = <<mergedLog[1] + mergedLog[2]>> /\ closed(chResult)

-----------------------------------------------------------------------------
\* C12 (sink termination after cancellation).  As claimed: with sum wired
\* in, once the context is cancelled and sum's inbound channel is closed,
\* sum terminates -- also when main has left its loop and receives nothing
\* from the result channel.
C12_AsClaimed ==
    (useSink /\ cancelled /\ closed(chMerged)) ~> (smPc = "done")

\* What the code does instead: sum's send of total (line 60) is a plain send
\* outside any select, so with main gone it stays blocked in it for good.
C12_SinkStuck ==
    /\ useSink /\ m = 0 /\ ownerPc = "exited" /\ cancelled
    /\ closed(chMerged) /\ smPc = "send"
    /\ ~ENABLED sumStep

-----------------------------------------------------------------------------
\* C13 (order on a single path).  With one power worker and merge over its
\* one channel, absent cancellation, the values received from the merged
\* channel are at every moment a prefix of the input squared element by
\* element, in input order, and once the merged channel is closed they are
\* the whole of it.
C13_SinglePathOrder ==
    (K = 1 /\ ~cancelled) =>
        /\ IsPrefix(mergedLog, MapSquare(numbers))
        /\ closed(chMerged) => mergedLog = MapSquare(numbers)

\* Two different inputs went through the single path and came out in order,
\* and the merged channel was closed behind them.
C13_Witness ==
    /\ K = 1 /\ ~cancelled /\ closed(chMerged)
    /\ Len(numbers) = 2 /\ numbers[1] # numbers[2]
    /\ mergedLog = <<numbers[1] * numbers[1], numbers[2] * numbers[2]>>

-----------------------------------------------------------------------------
\* C14 (truncation is a prefix).  Whenever cancel() is called, the values
\* received from generate's channel are a prefix of the input in input
\* order; the channel is closed by generate's one close as on a complete
\* run, exactly once and with generate gone, after which nothing more is
\* delivered on it; and no panic or other error comes out of it, so what a
\* receiver saw is what an uncancelled run on that prefix shows (C10).
C14_TruncationIsPrefix ==
    /\ IsPrefix(inLog, numbers)
    /\ closed(chIn) <=> genPc = "done"
    /\ closes[chIn] <= 1
    /\ panic = "none"
    /\ closed(chIn) => \A k \in 1..K : ~ENABLED generateSend(k)

\* generate was cancelled after the first of two values and closed its
\* channel behind that one value.
C14_Witness ==
    /\ cancelled /\ closed(chIn) /\ genPc = "done"
    /\ Len(numbers) = 2 /\ inLog = <<numbers[1]>>

-----------------------------------------------------------------------------
\* C15 (close on every exit path).  In every state, a generate goroutine
\* that has returned -- at the end of its loop or on ctx.Done() -- has closed
\* its channel, and so has every power goroutine that has returned; hence a
\* goroutine ranging over the channel of a returned producer is not blocked:
\* a power worker behind a returned generate, and a send goroutine of merge
\* behind a returned power worker, can leave their loops.
C15_CloseOnExit ==
    /\ genPc = "done" => closed(chIn)
    /\ \A k \in 1..K :
          /\ pwPc[k] = "done" => closed(chPow(k))
          /\ (genPc = "done" /\ pwPc[k] = "recv") => ENABLED powerRangeEnd(k)
          /\ (pwPc[k] = "done" /\ fwPc[k] = "recv") => ENABLED sendRangeEnd(k)

\* generate returned on cancellation before the end of its input, one power
\* worker returned on cancellation with a value in hand, the other at the
\* closed inbound channel; all three channels are closed.
C15_Witness ==
    /\ K = 2 /\ cancelled /\ genPc = "done" /\ Len(inLog) < Len(numbers)
    /\ \A k \in 1..K : pwPc[k] = "done" /\ closed(chPow(k))
    /\ Len(pwIn[1]) > Len(pwOut[1]) /\ Len(pwIn[2]) = Len(pwOut[2])
    /\ closed(chIn)

-----------------------------------------------------------------------------
\* C16 (merge barrier accounting).  The WaitGroup counter starts at the
\* number of send goroutines; in every state it is the number of send
\* goroutines that have not returned, and not negative; every return of a
\* send goroutine, at the end of its loop or on ctx.Done(), takes exactly one
\* off it and nothing else changes it; and the closing goroutine closes the
\* merged channel only in a state where the counter is 0.
C16_Counter ==
    /\ wg = Cardinality({k \in 1..K : fwPc[k] # "done"})
    /\ wg >= 0
    /\ (clPc = "done" \/ closed(chMerged)) => wg = 0

C16_Steps ==
    [][/\ \A k \in 1..K :
             (fwPc[k] # "done" /\ fwPc'[k] = "done") => wg' = wg - 1
       /\ (\A k \in 1..K : fwPc'[k] = fwPc[k]) => wg' = wg
       /\ closes'[chMerged] # closes[chMerged] => wg = 0 /\ clPc = "wait"]_vars

C16_BarrierAccounting ==
    /\ wg = K /\ \A k \in 1..K : fwPc[k] = "recv"
    /\ []C16_Counter
    /\ C16_Steps

\* Of two send goroutines one returned at its closed inbound channel and the
\* other on cancellation with a value in hand; the counter went from 2 to 0
\* and the merged channel was closed.
C16_Witness ==
    /\ K = 2 /\ wg = 0 /\ cancelled /\ closed(chMerged) /\ clPc = "done"
    /\ Len(CatTo(pwOut, K)) = Len(mergedLog) + 1

-----------------------------------------------------------------------------
\* s is t with some elements left out, the rest in the order of t.
RECURSIVE IsSubseq(_, _)
IsSubseq(s, t) ==
    IF s = <<>> THEN TRUE
    ELSE IF t = <<>> THEN FALSE
    ELSE IF Head(s) = Head(t) THEN IsSubseq(Tail(s), Tail(t))
    ELSE IsSubseq(s, Tail(t))

\* C17 (per-worker order under fan-out).  With two or more power workers on
\* generate's channel, in every state the values one worker has sent on its
\* own channel are the squares of the values it received, in the order it
\* received them (all of them, or all but the last, which it still holds or
\* dropped on cancellation), and the values it received are a subsequence of
\* the input in input order.  Across workers no order holds: see the witness.
C17_PerWorkerOrder ==
    K >= 2 =>
        \A k \in 1..K :
            /\ IsPrefix(pwOut[k], MapSquare(pwIn[k]))
            /\ Len(pwIn[k]) - Len(pwOut[k]) \in {0, 1}
            /\ IsSubseq(pwIn[k], inLog)
            /\ IsSubseq(pwIn[k], numbers)

\* Two workers took one value each, in input order, and the squares came
\* out of merge in the opposite order.
C17_Witness ==
    /\ K = 2 /\ Len(numbers) = 2 /\ numbers[1] # numbers[2]
    /\ pwIn[1] = <<numbers[1]>> /\ pwIn[2] = <<numbers[2]>>
    /\ pwOut[1] = <<numbers[1] * numbers[1]>>
    /\ pwOut[2] = <<numbers[2] * numbers[2]>>
    /\ mergedLog = <<numbers[2] * numbers[2], numbers[1] * numbers[1]>>

-----------------------------------------------------------------------------
\* A consumer that stops reading and never cancels: main reads m values and
\* then neither receives again nor returns, so cancel() is never called and
\* no <-ctx.Done() case can be taken.
NextLeak ==
    \/ \E k \in 1..MaxK : generateSend(k)
    \/ generateClose
    \/ \E k \in 1..MaxK : powerRangeEnd(k)
    \/ \E k \in 1..MaxK : powerSend(k)
    \/ \E k \in 1..MaxK : sendRangeEnd(k)
    \/ \E k \in 1..MaxK : sendSend(k)
    \/ mergeClose
    \/ mainRecvClosed

\* Every goroutine that can take one of these steps eventually takes one.
LeakFairness ==
    /\ WF_vars((\E k \in 1..MaxK : generateSend(k)) \/ generateClose)
    /\ \A k \in 1..MaxK :
          WF_vars(generateSend(k) \/ powerRangeEnd(k) \/ powerSend(k))
    /\ \A k \in 1..MaxK :
          WF_vars(powerSend(k) \/ sendRangeEnd(k) \/ sendSend(k))
    /\ WF_vars(mergeClose)
    /\ WF_vars((\E k \in 1..MaxK : sendSend(k)) \/ mainRecvClosed)

LeakSpec == InitMerge /\ [][NextLeak]_vars /\ LeakFairness

\* C18 (leak without cancellation), as claimed: when the consumer reads
\* fewer values than the input has and cancel() is never called, neither
\* generate nor any power worker nor any send goroutine of merge ever
\* returns, and the merged channel is never closed.
C18_AsClaimed ==
    m < Len(numbers) =>
        /\ genPc # "done"
        /\ \A k \in 1..K : pwPc[k] # "done" /\ fwPc[k] # "done"
        /\ ~closed(chMerged)

\* The goroutines that hold a value and cannot hand it on.
BlockedInSend ==
    /\ \A k \in 1..K : fwPc[k] = "select" => ~ENABLED sendSend(k)
    /\ \A k \in 1..K : pwPc[k] = "select" => ~ENABLED powerSend(k)
    /\ genPc = "select" => \A k \in 1..K : ~ENABLED generateSend(k)

\* C18, amended: when the consumer reads fewer values than the input has
\* and cancel() is never called, the merged channel is never closed and the
\* closing goroutine never returns, because some send goroutine of merge has
\* not returned; and the run ends with the consumer stopped, at least one
\* send goroutine of merge holding a value, and every goroutine that holds a
\* value blocked in its send for good.  generate and the power workers may
\* well have returned by then: see the witness.
C18_Leak ==
    /\ [](m < Len(numbers) =>
            /\ ~closed(chMerged) /\ clPc = "wait" /\ wg > 0
            /\ \E k \in 1..K : fwPc[k] # "done")
    /\ <>[](m < Len(numbers) =>
            /\ Len(got) = m
            /\ \E k \in 1..K : fwPc[k] = "select"
            /\ BlockedInSend)

\* The consumer read one of two values and stopped; generate and the power
\* worker have returned, while merge's send goroutine holds the second value
\* and nothing can move.
C18_Witness ==
    /\ K = 1 /\ Len(numbers) = 2 /\ m = 1 /\ Len(got) = 1 /\ ~cancelled
    /\ genPc = "done" /\ pwPc[1] = "done" /\ fwPc[1] = "select"
    /\ ~closed(chMerged) /\ BlockedInSend /\ ~ENABLED NextLeak

-----------------------------------------------------------------------------
\* C19 (bounded in-flight loss).  In every state, cancelled or not: a power
\* worker has received at most one value more than it has sent, and when it
\* has, it either still holds that value in its select or has returned; the
\* send goroutines of merge together have received at most one value each
\* more than they have sent, counting only those in their select or
\* returned; hence the values received from generate's channel and not
\* delivered on the merged channel are at most 2K.  And the merged channel
\* carries only squares of input elements, each at most as often as the
\* input has it.
C19_BoundedLoss ==
    /\ \A k \in 1..K :
          /\ Len(pwIn[k]) - Len(pwOut[k]) \in {0, 1}
          /\ pwPc[k] = "recv" => Len(pwIn[k]) = Len(pwOut[k])
          /\ pwPc[k] = "select" => Len(pwIn[k]) = Len(pwOut[k]) + 1
    /\ Len(inLog) = Len(CatTo(pwIn, K))
    /\ Len(CatTo(pwOut, K)) - Len(mergedLog) >=
           Cardinality({k \in 1..K : fwPc[k] = "select"})
    /\ Len(CatTo(pwOut, K)) - Len(mergedLog) <=
           Cardinality({k \in 1..K : fwPc[k] \in {"select", "done"}})
    /\ Len(inLog) - Len(mergedLog) \in 0..(2 * K)
    /\ SubBag(mergedLog, MapSquare(numbers))

\* One power worker and one send goroutine each dropped the value it held
\* when the context was cancelled: two values lost, the bound for K = 1.
C19_Witness ==
    /\ K = 1 /\ cancelled /\ AllExited
    /\ Len(inLog) = 2 /\ mergedLog = <<>>
    /\ Len(pwOut[1]) = 1

-----------------------------------------------------------------------------
\* In a cancelled context a goroutine in its select, with the receiver of
\* its channel ready, can take either case: the send or <-ctx.Done().
C20_BothCasesReady ==
    cancelled =>
        \A k \in 1..K :
            /\ (genPc = "select" /\ pwPc[k] = "recv") =>
                   ENABLED generateSend(k) /\ ENABLED generateDone
            /\ (pwPc[k] = "select" /\ fwPc[k] = "recv") =>
                   ENABLED powerSend(k) /\ ENABLED powerDone(k)
            /\ (fwPc[k] = "select" /\ ownerPc = "loop" /\ Len(got) < m) =>
                   ENABLED sendSend(k) /\ ENABLED sendDone(k)

AllClosed ==
    closed(chIn) /\ closed(chMerged) /\ \A k \in 1..K : closed(chPow(k))

\* A value handed over in a cancelled context.
SendAfterCancel ==
    /\ cancelled
    /\ \/ Len(inLog') > Len(inLog)
       \/ Len(mergedLog') > Len(mergedLog)
       \/ \E k \in 1..K : Len(pwOut[k]') > Len(pwOut[k])

\* The guarantee cancellation does not give: nothing is sent after cancel().
NoSendAfterCancel == [][~SendAfterCancel]_vars

\* C20 (delivery after cancellation is possible).  After cancel() a
\* generate, power or send goroutine whose receiver is ready may still
\* complete its send, the select being free to take either ready case; what
\* cancellation does guarantee is that all channels are eventually closed.
C20_DeliveryAfterCancel ==
    /\ []C20_BothCasesReady
    /\ cancelled ~> AllClosed

\* cancel() was called while main was still reading, and a send goroutine of
\* merge stands in its select with main ready to receive: the value can
\* still be delivered.
C20_Witness ==
    /\ cancelled /\ ownerPc = "loop" /\ Len(got) < m
    /\ \E k \in 1..K : fwPc[k] = "select" /\ ENABLED sendSend(k)
    /\ genPc = "select" /\ \E k \in 1..K : ENABLED generateSend(k)

====
